---------------------------- MODULE Spec2Model ----------------------------
(***************************************************************************)
(* Retro Tennis, networked variant (src/unnamed/part_000): two browser     *)
(* clients running the same script, the signaling/relay server between     *)
(* them, and the SimplePeer direct channel.                                 *)
(*                                                                         *)
(* Each client's module-level variables are one record cl[p].  A handler   *)
(* of the script is an operator from that record to the record after the   *)
(* handler; the messages it emits are collected in the field "out" and     *)
(* moved to the channels by the action that runs the handler.              *)
(*                                                                         *)
(* The script registers its socket handlers twice (once by the             *)
(* DOMContentLoaded listener, lines 144-147, once by window.onload -> init,*)
(* lines 133-142 and 1023), with fresh closures each time, so every socket *)
(* event runs its handler twice in a row.  DOM listeners are registered    *)
(* with the same function object both times and therefore run once.        *)
(*                                                                         *)
(* Geometry is scaled: in this specification the ball lives on the         *)
(* longitudinal axis only (x, dx) and the transverse overlap of ball and   *)
(* paddle is an input of the tick.                                          *)
(*                                                                         *)
(* A SimplePeer object is "new" from its construction, "open" from its     *)
(* 'connect' event, and "dead" once the library has destroyed it; destroying*)
(* a peer that is not dead raises its 'close' event.  A peer that the      *)
(* second listener of gameJoined or playerJoined replaces in the variable  *)
(* "peer" is counted in "leaked"; such a peer sends its offer if it is an  *)
(* initiator and raises no other event.                                    *)
(***************************************************************************)
EXTENDS Integers, Sequences, FiniteSets, TLC

VARIABLES cl,      \* cl[p]: the script's variables in client p
          srv,     \* the server's rooms
          toCl,    \* toCl[p]: socket messages from the server to client p
          rtc,     \* rtc[p]: data sent on the direct channel towards client p
          env,     \* what the environment may still do, and has done (InitWith)
          game,    \* the single-player game object (src/src/main.ts)
          hostBall \* the host's ball on the canvas, in thousandths of a pixel

vars == <<cl, srv, toCl, rtc, env, game, hostBall>>

Players == {1, 2}
Other(p) == 3 - p

\* ---------------------------------------------------------------- bounds
MaxRooms == 2        \* rooms the server can hand out
MaxQueue == 1        \* messages waiting in a channel when a handler may add to it
LobbyQueue == 3      \* the same in the lobby, where answers of the server queue up
OrderQueue == 2      \* the same where messages of two channels overtake each other
RolesQueue == 2      \* the same where both clients create and join with keys pressed
RematchQueue == 3    \* the same where matches follow one another
MaxRematch == 1      \* clicks on Play Again in a run that counts them
MaxPoints == 1       \* points played in the single-player game
SoloKeys == 2        \* key events in a run of the single-player game
KeyRally == 1        \* hits of a rally after which no key event is explored
MaxWalls == 2        \* wall bounces of a rally after which it is not followed further
HostPoints == 2      \* points played with the host's ball on the canvas
MaxLoops == 2        \* gameLoop callbacks one client has requested
MaxFaults == 1       \* direct-channel faults (error, close, exception) in a run
MaxLeaves == 1       \* clients that close their page in a run
MaxKeys == 1         \* key events in a run
MaxOdd == 1          \* direct-channel messages of an unknown kind in a run
WinningScore == 1    \* let winningScore = 10 (line 24), scaled
CanvasWidth == 2     \* canvas.width, scaled; the ball is served from its middle
PaddleMax == 2       \* canvas.height - paddleHeight, scaled
PaddleSpeed == 1     \* paddle.speed, scaled
BallSpeed == 1       \* ball.speed, scaled
PaddleStart == PaddleMax \div 2  \* y: 250 of lines 38, 45, 522 and 528, scaled

NoRoom == 0          \* currentRoomCode = null


\* ------------------------------------------------------- client variables
\* Lines 17-56: the script's module-level variables at load.  peer is the
\* SimplePeer object the variable refers to: "null", "new" (created, channel
\* not open), "open" (channel open) or "dead" (destroyed by the library after
\* an error or a close, the variable still referring to it).
InitClient ==
  [ screen |-> "menu", gameActive |-> FALSE, isHost |-> FALSE, room |-> NoRoom,
    playerReady |-> FALSE, opponentReady |-> FALSE, readyDisabled |-> FALSE,
    leftScore |-> 0, rightScore |-> 0,
    peer |-> "null", peerConnected |-> FALSE, useWebRTC |-> TRUE,
    initiator |-> FALSE, signalled |-> FALSE,
    leftY |-> PaddleStart, rightY |-> PaddleStart, leftDy |-> 0, rightDy |-> 0,
    ball |-> [x |-> CanvasWidth \div 2, dx |-> BallSpeed],
    winner |-> "", joinError |-> "",
    loops |-> 0,      \* gameLoop callbacks requested and not yet run
    timers |-> 0,     \* setTimeout callbacks of the gameStart handler not yet run
    leaked |-> 0,     \* peers replaced in the variable without being destroyed
    sendThrows |-> FALSE,  \* peer.send of the current peer raises an exception
    out |-> <<>> ]    \* messages emitted by the handler being run

\* socket.emit(name, data)
Emit(c, m) == [c EXCEPT !.out = Append(@, [ch |-> "sock", m |-> m])]

\* Lines 380-391.  peer.send throws unless the peer's channel is open; the
\* exception is caught and nothing is sent.
sendWebRTCMessage(c, m) ==
  IF c.peer # "null" /\ c.peerConnected /\ c.peer = "open" /\ ~c.sendThrows
  THEN [c EXCEPT !.out = Append(@, [ch |-> "rtc", m |-> m])]
  ELSE c

\* The transport choice of lines 248-262, 568-584, 620-633 and 975-979.
SendEither(c, viaRtc, viaSock) ==
  IF c.useWebRTC /\ c.peerConnected
  THEN sendWebRTCMessage(c, viaRtc)
  ELSE Emit(c, viaSock)

\* Lines 482-491.
updateReadyStatus(c) == [c EXCEPT !.readyDisabled = c.playerReady]

\* Lines 464-468.
showWaitingScreen(c) == updateReadyStatus([c EXCEPT !.screen = "waiting"])

\* Lines 988-993.
resetGame(c) == [c EXCEPT !.leftScore = 0, !.rightScore = 0, !.gameActive = FALSE]

\* Lines 329-335, peer.on('signal'): a peer hands its offer or answer to the
\* server.  The library raises the event on its own once the description is
\* ready; here that is when the handler that made it ready returns.
onPeerSignal(c) == Emit(c, [type |-> "webrtcSignal", room |-> c.room])

\* peer.on('error') as it would be if the handler also ended the match.
onPeerError_endsGame(c) ==
  [c EXCEPT !.useWebRTC = FALSE, !.peerConnected = FALSE, !.gameActive = FALSE]

\* Lines 356-362, peer.on('error'); the library destroys the peer.
onPeerError(c) ==
  [c EXCEPT !.useWebRTC = FALSE, !.peerConnected = FALSE]

\* Lines 365-370, peer.on('close').
onPeerClose(c) ==
  [c EXCEPT !.peerConnected = FALSE, !.useWebRTC = FALSE]

\* Lines 1006-1010 and 234-238: if (peer) { peer.destroy(); peer = null;
\* peerConnected = false }.  A peer the library had not destroyed yet raises
\* 'close' when it is destroyed.
DestroyPeer(c) ==
  IF c.peer = "null" THEN c
  ELSE LET d == [c EXCEPT !.peer = "null", !.peerConnected = FALSE,
                          !.signalled = FALSE, !.sendThrows = FALSE]
       IN  IF c.peer = "dead" THEN d ELSE onPeerClose(d)

\* Lines 996-1011.
backToMenu(c) ==
  DestroyPeer(resetGame([c EXCEPT !.screen = "menu", !.room = NoRoom,
                                  !.isHost = FALSE, !.playerReady = FALSE,
                                  !.opponentReady = FALSE]))

\* Lines 953-980.  message = "" stands for endGame() without an argument.
endGame(c, message) ==
  LET d == [c EXCEPT !.gameActive = FALSE,
                     !.winner = IF message # "" THEN message
                                ELSE IF c.leftScore > c.rightScore
                                     THEN "PLAYER 1 WINS!"
                                     ELSE "PLAYER 2 WINS!",
                     !.screen = "gameover"]
  IN  SendEither(d, [type |-> "gameOver"], [type |-> "gameOver", room |-> d.room])

\* Lines 317-377.  ok = FALSE: new SimplePeer throws (no WebRTC support).
initializeWebRTC(c, isInitiator, ok) ==
  IF ~ok THEN [c EXCEPT !.useWebRTC = FALSE]
  ELSE LET d == [c EXCEPT !.leaked = IF c.peer \in {"new", "open"} THEN @ + 1 ELSE @,
                          !.peer = "new", !.initiator = isInitiator,
                          !.signalled = FALSE, !.sendThrows = FALSE]
       IN  IF isInitiator THEN onPeerSignal(d) ELSE d

\* Lines 519-542.  dir is the sign drawn by Math.random() for ball.dx.
resetGameState(c, dir) ==
  [c EXCEPT !.leftY = PaddleStart, !.rightY = PaddleStart,
            !.leftDy = 0, !.rightDy = 0,
            !.ball = [x |-> CanvasWidth \div 2, dx |-> BallSpeed * dir],
            !.leftScore = 0, !.rightScore = 0]

\* Lines 494-516.
startGame(c, dir) ==
  LET d == resetGameState([c EXCEPT !.screen = "game", !.gameActive = TRUE], dir)
      e == IF ~d.isHost
           THEN SendEither(d, [type |-> "requestBallUpdate"],
                              [type |-> "requestBallUpdate", room |-> d.room])
           ELSE d
  IN  [e EXCEPT !.loops = @ + 1]

\* Lines 717-721.
updateScore(c, left, right) == [c EXCEPT !.leftScore = left, !.rightScore = right]

BallMsg(c, ls, rs) == [type |-> "ballUpdate", ball |-> c.ball, leftScore |-> ls, rightScore |-> rs]
BallMove(c, room, ls, rs) ==
  [type |-> "ballMove", room |-> room, ball |-> c.ball, leftScore |-> ls, rightScore |-> rs]


\* ------------------------------------------------------- socket handlers
\* Lines 175-181.
onGameCreated(c, roomCode) ==
  [c EXCEPT !.room = roomCode, !.screen = "roomCreate", !.isHost = TRUE]

\* Lines 184-192.  ok: whether new SimplePeer succeeds.
onGameJoined(c, roomCode, ok) ==
  LET d == showWaitingScreen([c EXCEPT !.room = roomCode])
  IN  IF d.useWebRTC /\ ~d.isHost THEN initializeWebRTC(d, TRUE, ok) ELSE d

\* The handler as it would be if it also went back to the menu.
onJoinError_toMenu(c, message) ==
  [c EXCEPT !.joinError = message, !.screen = "menu"]

\* Lines 195-197.
onJoinError(c, message) == [c EXCEPT !.joinError = message]

\* Lines 200-209.
onPlayerJoined(c, ok) ==
  IF c.isHost
  THEN LET d == showWaitingScreen(c)
       IN  IF d.useWebRTC THEN initializeWebRTC(d, FALSE, ok) ELSE d
  ELSE c

\* Lines 212-223.  throws: whether peer.signal raises an exception.  A
\* responder answers the first signal it accepts with a signal of its own.
onWebrtcSignal(c, throws) ==
  IF c.peer # "null" /\ c.useWebRTC
  THEN IF throws THEN [c EXCEPT !.useWebRTC = FALSE]
       ELSE IF c.peer = "new" /\ ~c.signalled
            THEN LET d == [c EXCEPT !.signalled = TRUE]
                 IN  IF c.initiator THEN d ELSE onPeerSignal(d)
            ELSE c
  ELSE c

\* Lines 226-239.
onPlayerLeft(c) ==
  DestroyPeer(IF c.gameActive THEN endGame(c, "Opponent left the game")
              ELSE backToMenu(c))

\* Lines 242-265.  The timeout callback is Timeout below.
onGameStart(c, dir) ==
  LET d == startGame(c, dir)
  IN  IF d.isHost THEN [d EXCEPT !.timers = @ + 1] ELSE d

\* Lines 247-263, the callback of setTimeout.
Timeout(c) ==
  SendEither(c, BallMsg(c, 0, 0), BallMove(c, c.room, 0, 0))

\* Lines 268-276.
onOpponentPaddleMove(c, data) ==
  IF ~c.useWebRTC \/ ~c.peerConnected
  THEN IF data.paddle = "left" THEN [c EXCEPT !.leftY = data.position]
       ELSE [c EXCEPT !.rightY = data.position]
  ELSE c

\* Lines 279-286.
onBallUpdate(c, data) ==
  IF (~c.useWebRTC \/ ~c.peerConnected) /\ ~c.isHost
  THEN updateScore([c EXCEPT !.ball = data.ball], data.leftScore, data.rightScore)
  ELSE c

\* Lines 289-299.
onSendBallUpdate(c, roomCode) ==
  IF (~c.useWebRTC \/ ~c.peerConnected) /\ c.isHost /\ c.gameActive
  THEN Emit(c, BallMove(c, roomCode, c.leftScore, c.rightScore))
  ELSE c

\* Lines 302-304.
onGameEnded(c) == [c EXCEPT !.gameActive = FALSE]

\* socket.on('gameRestarted') as it would be if it took the opponent, who
\* asked for the restart, as ready.
onGameRestarted_opponentReady(c) ==
  updateReadyStatus([showWaitingScreen(resetGame(c))
                       EXCEPT !.playerReady = FALSE, !.opponentReady = TRUE])

\* Lines 307-313.
onGameRestarted(c) ==
  updateReadyStatus([showWaitingScreen(resetGame(c))
                       EXCEPT !.playerReady = FALSE, !.opponentReady = FALSE])

\* ------------------------------------------------- direct-channel handlers
\* Lines 338-347, peer.on('connect').
onPeerConnect(c) ==
  LET d == [c EXCEPT !.peer = "open", !.peerConnected = TRUE]
  IN  IF ~d.isHost /\ d.gameActive
      THEN sendWebRTCMessage(d, [type |-> "requestBallUpdate"])
      ELSE d

\* The default branch as it would be if it ended the match.
onUnknown_stops(c) == [c EXCEPT !.gameActive = FALSE]

\* Lines 426-427: the default branch, a warning on the console.
onUnknown(c) == c

\* Lines 394-429.
handleWebRTCMessage(c, message) ==
  CASE message.type = "paddleMove" ->
         IF message.paddle = "left" THEN [c EXCEPT !.leftY = message.position]
         ELSE [c EXCEPT !.rightY = message.position]
    [] message.type = "ballUpdate" ->
         IF ~c.isHost
         THEN updateScore([c EXCEPT !.ball = message.ball],
                          message.leftScore, message.rightScore)
         ELSE c
    [] message.type = "requestBallUpdate" ->
         IF c.isHost /\ c.gameActive
         THEN sendWebRTCMessage(c, BallMsg(c, c.leftScore, c.rightScore))
         ELSE c
    [] message.type = "gameOver" -> [c EXCEPT !.gameActive = FALSE]
    [] OTHER -> onUnknown(c)


\* --------------------------------------------------------------- the frame
\* Lines 602-606 without the tests.
Clamp_none(y) == y

\* Lines 602-606: a paddle held in [0, canvas.height - paddleHeight].
Clamp(y) == IF y < 0 THEN 0 ELSE IF y > PaddleMax THEN PaddleMax ELSE y

\* Lines 594-634.
movePaddles(c) ==
  LET d == [c EXCEPT !.leftY = Clamp(c.leftY + c.leftDy),
                     !.rightY = Clamp(c.rightY + c.rightDy)]
      paddleToSend == IF d.isHost THEN d.leftY ELSE d.rightY
      paddleSide == IF d.isHost THEN "left" ELSE "right"
  IN  SendEither(d, [type |-> "paddleMove", paddle |-> paddleSide,
                     position |-> paddleToSend],
                    [type |-> "paddleMove", room |-> d.room,
                     position |-> paddleToSend])

\* Lines 637-640, on the longitudinal axis.
moveBall(c) == [c EXCEPT !.ball.x = @ + c.ball.dx]

\* Lines 709-714, on the longitudinal axis.
resetBall(c, direction) ==
  [c EXCEPT !.ball = [x |-> CanvasWidth \div 2, dx |-> BallSpeed * direction]]

\* Lines 650-706, on the longitudinal axis.  overlap: whether the ball's
\* transverse extent meets the paddle's (lines 653-654 and 674-675).  The left
\* paddle's face is at x = 0 and the right paddle's at x = CanvasWidth.
checkCollisions(c, overlap) ==
  LET hitL == c.ball.x <= 0 /\ overlap /\ c.ball.dx < 0
      d == IF hitL THEN [c EXCEPT !.ball.dx = -@] ELSE c
      hitR == d.ball.x >= CanvasWidth /\ overlap /\ d.ball.dx > 0
      e == IF hitR THEN [d EXCEPT !.ball.dx = -@] ELSE d
  IN  IF e.ball.x < 0
      THEN resetBall([e EXCEPT !.rightScore = @ + 1], 1)
      ELSE IF e.ball.x > CanvasWidth
           THEN resetBall([e EXCEPT !.leftScore = @ + 1], -1)
           ELSE e

\* update as it would be without the isHost test of line 560.
update_guestSimulates(c, overlap) ==
  LET d == movePaddles(c)
      f == checkCollisions(moveBall(d), overlap)
      e == SendEither(f, BallMsg(f, f.leftScore, f.rightScore),
                      BallMove(f, f.room, f.leftScore, f.rightScore))
  IN  IF e.leftScore >= WinningScore \/ e.rightScore >= WinningScore
      THEN endGame(e, "")
      ELSE e

\* update as it would be with > for >= in the test of line 587.
update_strictThreshold(c, overlap) ==
  LET d == movePaddles(c)
      e == IF d.isHost
           THEN LET f == checkCollisions(moveBall(d), overlap)
                IN  SendEither(f, BallMsg(f, f.leftScore, f.rightScore),
                               BallMove(f, f.room, f.leftScore, f.rightScore))
           ELSE d
  IN  IF e.leftScore > WinningScore \/ e.rightScore > WinningScore
      THEN endGame(e, "")
      ELSE e

\* Lines 555-591.
update(c, overlap) ==
  LET d == movePaddles(c)
      e == IF d.isHost
           THEN LET f == checkCollisions(moveBall(d), overlap)
                IN  SendEither(f, BallMsg(f, f.leftScore, f.rightScore),
                               BallMove(f, f.room, f.leftScore, f.rightScore))
           ELSE d
  IN  IF e.leftScore >= WinningScore \/ e.rightScore >= WinningScore
      THEN endGame(e, "")
      ELSE e

\* Lines 545-552: one run of a requested gameLoop callback.
gameLoop(c, overlap) ==
  IF ~c.gameActive THEN [c EXCEPT !.loops = @ - 1]
  ELSE update(c, overlap)

\* ------------------------------------------------------------ DOM handlers
\* Lines 886-903; key is "up" (w, W, ArrowUp) or "down" (s, S, ArrowDown).
handleKeyDown(c, key) ==
  IF ~c.gameActive THEN c
  ELSE IF c.isHost
       THEN [c EXCEPT !.leftDy = IF key = "up" THEN -PaddleSpeed ELSE PaddleSpeed]
       ELSE [c EXCEPT !.rightDy = IF key = "up" THEN -PaddleSpeed ELSE PaddleSpeed]

\* Lines 920-938.
handleKeyUp(c, key) ==
  IF ~c.gameActive THEN c
  ELSE IF c.isHost
       THEN IF (key = "up" /\ c.leftDy < 0) \/ (key = "down" /\ c.leftDy > 0)
            THEN [c EXCEPT !.leftDy = 0] ELSE c
       ELSE IF (key = "up" /\ c.rightDy < 0) \/ (key = "down" /\ c.rightDy > 0)
            THEN [c EXCEPT !.rightDy = 0] ELSE c

\* Lines 432-434.
createGame(c) == Emit(c, [type |-> "createGame"])

\* Lines 437-443.
showJoinRoom(c) == [c EXCEPT !.screen = "roomJoin"]

\* Lines 454-461.  roomCode = NoRoom stands for an empty input.
joinGame(c, roomCode) ==
  IF roomCode # NoRoom THEN Emit(c, [type |-> "joinGame", room |-> roomCode])
  ELSE [c EXCEPT !.joinError = "Please enter a room code"]

\* Lines 471-479.
playerReadyUp(c) ==
  Emit([c EXCEPT !.playerReady = TRUE, !.readyDisabled = TRUE],
       [type |-> "playerReady", room |-> c.room])

\* Lines 983-985.
restartGame(c) == Emit(c, [type |-> "restartGame", room |-> c.room])

\* One registered listener of the socket event m (lines 173-314).  i holds
\* the inputs of the run: ok (new SimplePeer succeeds), throws (peer.signal
\* raises) and dir (the sign drawn by Math.random).
SocketHandler(c, m, i) ==
  CASE m.type = "gameCreated" -> onGameCreated(c, m.room)
    [] m.type = "gameJoined" -> onGameJoined(c, m.room, i.ok)
    [] m.type = "joinError" -> onJoinError(c, m.message)
    [] m.type = "playerJoined" -> onPlayerJoined(c, i.ok)
    [] m.type = "webrtcSignal" -> onWebrtcSignal(c, i.throws)
    [] m.type = "playerLeft" -> onPlayerLeft(c)
    [] m.type = "gameStart" -> onGameStart(c, i.dir)
    [] m.type = "opponentPaddleMove" -> onOpponentPaddleMove(c, m)
    [] m.type = "ballUpdate" -> onBallUpdate(c, m)
    [] m.type = "sendBallUpdate" -> onSendBallUpdate(c, m.room)
    [] m.type = "gameEnded" -> onGameEnded(c)
    [] m.type = "gameRestarted" -> onGameRestarted(c)
    [] OTHER -> c

\* Lines 144-147 with 133-142 and 1023: setupSocketHandlers runs twice, so
\* two listeners of every socket event run one after the other.
SocketEvent(c, m, i) == SocketHandler(SocketHandler(c, m, i), m, i)

\* ------------------------------------------------------------- the server
\* The signaling server of section 6 of the specification: rooms of at most
\* two players, the first of them the creator.
InitServer ==
  [ n |-> 0,
    players |-> [r \in 1..MaxRooms |-> <<>>],
    ready |-> [r \in 1..MaxRooms |-> {}] ]

Range(f) == {f[k] : k \in DOMAIN f}

InRoom(s, r, p) == r \in 1..s.n /\ p \in Range(s.players[r])

Others(s, r, p) == IF InRoom(s, r, p) THEN Range(s.players[r]) \ {p} ELSE {}

\* What the server does with message m of client p: [srv, to, msg], the new
\* rooms and the message msg it sends to the clients in to.
Serve(s, p, m) ==
  CASE m.type = "createGame" ->
         [srv |-> [s EXCEPT !.n = @ + 1, !.players[s.n + 1] = <<p>>],
          to |-> {p}, msg |-> [type |-> "gameCreated", room |-> s.n + 1]]
    [] m.type = "joinGame" ->
         IF m.room \in 1..s.n /\ Len(s.players[m.room]) = 1
            /\ ~InRoom(s, m.room, p)
         THEN [srv |-> [s EXCEPT !.players[m.room] = Append(@, p)],
               to |-> {p} \cup Range(s.players[m.room]),
               msg |-> [type |-> "joined", room |-> m.room, who |-> p]]
         ELSE [srv |-> s, to |-> {p},
               msg |-> [type |-> "joinError", message |-> "Room not found"]]
    [] m.type = "playerReady" ->
         IF InRoom(s, m.room, p)
         THEN IF Len(s.players[m.room]) = 2
                 /\ s.ready[m.room] \cup {p} = Range(s.players[m.room])
              THEN [srv |-> [s EXCEPT !.ready[m.room] = {}],
                    to |-> Range(s.players[m.room]),
                    msg |-> [type |-> "gameStart"]]
              ELSE [srv |-> [s EXCEPT !.ready[m.room] = @ \cup {p}],
                    to |-> {}, msg |-> [type |-> "none"]]
         ELSE [srv |-> s, to |-> {}, msg |-> [type |-> "none"]]
    [] m.type = "webrtcSignal" ->
         [srv |-> s, to |-> Others(s, m.room, p), msg |-> [type |-> "webrtcSignal"]]
    [] m.type = "paddleMove" ->
         [srv |-> s, to |-> Others(s, m.room, p),
          msg |-> [type |-> "opponentPaddleMove",
                   paddle |-> IF InRoom(s, m.room, p) /\ s.players[m.room][1] = p
                              THEN "left" ELSE "right",
                   position |-> m.position]]
    [] m.type = "ballMove" ->
         [srv |-> s, to |-> Others(s, m.room, p),
          msg |-> [type |-> "ballUpdate", ball |-> m.ball,
                   leftScore |-> m.leftScore, rightScore |-> m.rightScore]]
    [] m.type = "requestBallUpdate" ->
         [srv |-> s, to |-> Others(s, m.room, p),
          msg |-> [type |-> "sendBallUpdate", room |-> m.room]]
    [] m.type = "gameOver" ->
         [srv |-> s,
          to |-> IF InRoom(s, m.room, p) THEN Range(s.players[m.room]) ELSE {},
          msg |-> [type |-> "gameEnded"]]
    [] m.type = "restartGame" ->
         [srv |-> [s EXCEPT !.ready = [r \in 1..MaxRooms |->
                                          IF r = m.room THEN {} ELSE s.ready[r]]],
          to |-> IF InRoom(s, m.room, p) THEN Range(s.players[m.room]) ELSE {},
          msg |-> [type |-> "gameRestarted"]]
    [] OTHER -> [srv |-> s, to |-> {}, msg |-> [type |-> "none"]]

\* The message client q gets out of the server's answer a to client p's
\* message: the joiner gets gameJoined, the player already there playerJoined.
Addressed(a, q) ==
  IF a.msg.type = "joined"
  THEN IF q = a.msg.who THEN [type |-> "gameJoined", room |-> a.msg.room]
       ELSE [type |-> "playerJoined"]
  ELSE a.msg


\* -------------------------------------- single-player game (src/main.ts)
\* class TennisGame.  Lengths and speeds are held in thousandths of the
\* scene's unit; a product or quotient is truncated towards zero.  The
\* value of Math.random() is an input, in thousandths (0 .. 999).
paddleSpeed == 300       \* 0.3
aiSpeed == 150           \* 0.15
paddleHitbox == 800      \* 0.8
maxSpeed == 350          \* 0.35
minSpeed == 150          \* 0.15
serveSpeed == 200        \* 0.2
PaddleLimit == 4000      \* the 4 of the paddles' bounds
WallZ == 5000            \* the 5 of the side walls
BandNear == 8800         \* a paddle's band, 8.8 to 9.2 from the net
BandFar == 9200
PaddleX == 9000          \* the paddles stand at x = -9 and x = 9
ServeX == 8000           \* the ball is served from x = -8
GoalX == 10000           \* a point is scored beyond 10
AiDeadZone == 100        \* the AI moves for a difference above 0.1

\* The values of Math.random() followed: the lowest, the middle, and one whose
\* perturbation of 0.021 cancels a damped transverse speed the ball can have.
Random == {0, 500, 930}

Abs(v) == IF v < 0 THEN -v ELSE v

\* Math.sign
Sign(v) == IF v > 0 THEN 1 ELSE IF v < 0 THEN -1 ELSE 0

\* v * n / d
Scaled(v, n, d) == Sign(v) * Sign(n) * Sign(d) * ((Abs(v) * Abs(n)) \div Abs(d))

\* v * n / d for a factor n / d below one: a speed that is not zero stays
\* different from zero, as it does in the code's floating point.
Shrunk(v, n, d) == IF v # 0 /\ Scaled(v, n, d) = 0 THEN Sign(v) ELSE Scaled(v, n, d)

\* Math.max(lo, Math.min(hi, v))
Bounded(v, lo, hi) == IF v < lo THEN lo ELSE IF v > hi THEN hi ELSE v

\* What the last updateBall did: whether it ran with the ball in play, the
\* paddles hit, whether the wall test fired, the speeds it started from, the
\* transverse speed the wall test found, what the test made of it before the
\* perturbation, the perturbation, and where the ball was moved to.
NoLog ==
  [ran |-> FALSE, hits |-> {}, wall |-> FALSE, sx0 |-> 0, sz0 |-> 0,
   damped |-> 0, noise |-> 0, x |-> 0]

\* Lines 14-21, 85, 90 and 247: the fields after the constructor.
InitGame ==
  [ p1z |-> 0, p2z |-> 0, lastAiTarget |-> 0,
    bx |-> -ServeX, bz |-> 0, sx |-> 0, sz |-> 0, ballInPlay |-> FALSE,
    player |-> 0, ai |-> 0,
    keys |-> {},      \* the keys held: "left", "right", "space"
    rally |-> 0,      \* paddle hits since the serve, counted up to KeyRally + 1
    walls |-> 0,      \* wall tests that fired since the serve
    log |-> NoLog ]

\* resetBall as it would be without lines 512-514.
TennisGame_resetBall_moving(g) == [g EXCEPT !.bx = -ServeX, !.bz = g.p1z]

\* Lines 509-516, TennisGame.resetBall.
TennisGame_resetBall(g) ==
  [g EXCEPT !.bx = -ServeX, !.bz = g.p1z, !.sx = 0, !.sz = 0,
            !.ballInPlay = FALSE]

\* launchBall as it would be with the ball served towards the player.
launchBall_backwards(g, r) ==
  IF ~g.ballInPlay
  THEN [g EXCEPT !.ballInPlay = TRUE, !.sx = -serveSpeed,
                 !.sz = Scaled(r - 500, 15, 100), !.rally = 0,
                 !.walls = 0]
  ELSE g

\* Lines 526-533.
launchBall(g, r) ==
  IF ~g.ballInPlay
  THEN [g EXCEPT !.ballInPlay = TRUE, !.sx = serveSpeed,
                 !.sz = Scaled(r - 500, 15, 100), !.rally = 0,
                 !.walls = 0]
  ELSE g

\* Lines 541-549: the player's paddle.
movePlayer(z, keys) ==
  LET z1 == IF "left" \in keys /\ z > -PaddleLimit THEN z - paddleSpeed ELSE z
  IN  IF "right" \in keys /\ z1 < PaddleLimit THEN z1 + paddleSpeed ELSE z1

\* Lines 563-577 without the clamp of line 573.
aiTarget_unclamped(g, bz) ==
  IF g.sx > 0
  THEN bz + Scaled(g.sz * Abs(PaddleX - g.bx), 1, g.sx)
  ELSE Scaled(bz, 3, 10)

\* Lines 563-577: the AI's target before smoothing.  bz is the ball's z
\* after line 553.
aiTarget(g, bz) ==
  IF g.sx > 0
  THEN Bounded(bz + Scaled(g.sz * Abs(PaddleX - g.bx), 1, g.sx),
               -PaddleLimit, PaddleLimit)
  ELSE Scaled(bz, 3, 10)

\* Lines 583-590 as they would be with the paddle put on its target.
aiMove_jump(z, last) == IF Abs(last - z) > AiDeadZone THEN last ELSE z

\* Lines 583-590: the AI's paddle moves towards the smoothed target.
aiMove(z, last) ==
  LET targetDiff == last - z
      moveAmount == IF Abs(targetDiff) < aiSpeed THEN Abs(targetDiff) ELSE aiSpeed
  IN  IF Abs(targetDiff) > AiDeadZone THEN z + Sign(targetDiff) * moveAmount ELSE z

\* Lines 539-598.  r is the value of Math.random() if the ball is served.
updatePaddles(g, r) ==
  LET z1 == movePlayer(g.p1z, g.keys)
      bz == IF ~g.ballInPlay THEN z1 ELSE g.bz
      last == Scaled(g.lastAiTarget * 8 + aiTarget(g, bz) * 2, 1, 10)
      z2 == aiMove(g.p2z, last)
      h == [g EXCEPT !.p1z = z1, !.bz = bz, !.lastAiTarget = last,
                     !.p2z = Bounded(z2, -PaddleLimit, PaddleLimit)]
  IN  IF "space" \in g.keys /\ ~h.ballInPlay THEN launchBall(h, r) ELSE h

\* Line 640: ballSpeed.z = -ballSpeed.z * 0.9.
wallBounce(sz) == -Shrunk(sz, 9, 10)

\* Lines 648-653 without the upper bound.
normalize_uncapped(sx) ==
  IF Abs(sx) < minSpeed THEN Sign(sx) * minSpeed ELSE sx

\* Lines 648-653: the longitudinal speed held between minSpeed and maxSpeed.
normalize(sx) ==
  IF Abs(sx) > maxSpeed THEN Sign(sx) * maxSpeed
  ELSE IF Abs(sx) < minSpeed THEN Sign(sx) * minSpeed
  ELSE sx

\* Lines 607-676.  r is the value of Math.random() if the wall test fires.
updateBall(g, r) ==
  IF ~g.ballInPlay THEN [g EXCEPT !.log = NoLog]
  ELSE
    LET x == g.bx + g.sx
        z == g.bz + g.sz
        hit1 == x <= -BandNear /\ x >= -BandFar /\ Abs(z - g.p1z) < paddleHitbox
        sx1 == IF hit1 THEN Scaled(Abs(g.sx), 103, 100) ELSE g.sx
        sz1 == IF hit1 THEN Scaled(Scaled(z - g.p1z, 1000, paddleHitbox), 3, 10)
               ELSE g.sz
        hit2 == x >= BandNear /\ x <= BandFar /\ Abs(z - g.p2z) < paddleHitbox
        sx2 == IF hit2 THEN -Scaled(Abs(sx1), 103, 100) ELSE sx1
        sz2 == IF hit2 THEN Scaled(Scaled(z - g.p2z, 1000, paddleHitbox), 3, 10)
               ELSE sz1
        wall == z > WallZ \/ z < -WallZ
        noise == Scaled(r - 500, 5, 100)
        sz3 == IF wall THEN wallBounce(sz2) + noise ELSE sz2
        sx3 == normalize(sx2)
        maxVerticalSpeed == Scaled(maxSpeed, 6, 10)
        sz4 == IF Abs(sz3) > maxVerticalSpeed THEN Sign(sz3) * maxVerticalSpeed
               ELSE sz3
        h == [g EXCEPT !.bx = x, !.bz = z, !.sx = sx3, !.sz = Shrunk(sz4, 98, 100),
                       !.rally = IF (hit1 \/ hit2) /\ @ <= KeyRally THEN @ + 1 ELSE @,
                       !.walls = @ + (IF wall THEN 1 ELSE 0),
                       !.log = [ran |-> TRUE,
                                hits |-> (IF hit1 THEN {"player"} ELSE {})
                                         \cup (IF hit2 THEN {"ai"} ELSE {}),
                                wall |-> wall, sx0 |-> g.sx, sz0 |-> sz2,
                                damped |-> IF wall THEN wallBounce(sz2) ELSE 0,
                                noise |-> IF wall THEN noise ELSE 0,
                                x |-> x]]
    IN  IF x > GoalX THEN TennisGame_resetBall([h EXCEPT !.player = @ + 1])
        ELSE IF x < -GoalX THEN TennisGame_resetBall([h EXCEPT !.ai = @ + 1])
        ELSE h

\* Lines 684-692.
animate(g, r1, r2) == updateBall(updatePaddles(g, r1), r2)


\* ------------------------------ the host's ball on the canvas (part_000)
\* Lines 33-56 and 637-714 with both axes.  Lengths and speeds are held in
\* thousandths of a pixel; a product or quotient is truncated towards zero.
paddleHeight == 100000   \* 100
paddleWidth == 15000     \* 15
ballSize == 15000        \* 15
leftPaddleX == 50000     \* leftPaddle.x: 50
rightPaddleX == 735000   \* rightPaddle.x: 735
ballStartX == 400000     \* ball.x: 400, canvas.width / 2
ballStartY == 300000     \* ball.y: 300, canvas.height / 2
ballSpeedPx == 5000      \* ball.speed: 5
speedLimit == 15000      \* the 15 of the speed-up
canvasWidth == 2 * ballStartX
canvasHeight == 2 * ballStartY

\* Where a player holds a paddle when the ball is at height y: under the ball,
\* at the position among 0, 100, .. 500 whose span holds it, or at the far
\* end of the canvas.  A paddle reaches these positions from 250 in steps of
\* 8 between the clamps.
Away(y) == IF y < ballStartY THEN canvasHeight - paddleHeight ELSE 0

PaddleYs(y) ==
  { Bounded((y \div paddleHeight) * paddleHeight, 0, canvasHeight - paddleHeight),
    Away(y) }

\* What the last checkCollisions did.
NoHostLog ==
  [wall |-> FALSE, hits |-> {}, point |-> "none", dx0 |-> 0, dy0 |-> 0,
   dyWall |-> 0]

\* Lines 50-56: the ball of the page as loaded.
InitBall ==
  [x |-> ballStartX, y |-> ballStartY, dx |-> ballSpeedPx, dy |-> ballSpeedPx,
   leftScore |-> 0, rightScore |-> 0, log |-> NoHostLog]

\* Lines 664-666 and 685-687.
speedUp(dx) == IF Abs(dx) < speedLimit THEN Scaled(dx, 105, 100) ELSE dx

\* Lines 660-661 and 681-682: ball.dy = 10 * (hitPosition - 0.5).
hitAngle(y, paddleY) == Scaled(y - paddleY, 10000, paddleHeight) - 5000

\* Lines 709-714.  up: the value of Math.random() > 0.5.
Canvas_resetBall(b, direction, up) ==
  [b EXCEPT !.x = canvasWidth \div 2, !.y = canvasHeight \div 2,
            !.dx = ballSpeedPx * direction,
            !.dy = ballSpeedPx * (IF up THEN 1 ELSE -1)]

\* Lines 637-640.
Canvas_moveBall(b) == [b EXCEPT !.x = @ + b.dx, !.y = @ + b.dy]

\* Lines 643-706 on a ball that has moved.
Canvas_checkCollisions(b, leftY, rightY, up) ==
  LET wall == b.y <= 0 \/ b.y + ballSize >= canvasHeight
      dy1 == IF wall THEN -b.dy ELSE b.dy
      hitL == /\ b.x <= leftPaddleX + paddleWidth
              /\ b.y + ballSize >= leftY /\ b.y <= leftY + paddleHeight
              /\ b.dx < 0
      dx2 == IF hitL THEN speedUp(-b.dx) ELSE b.dx
      dy2 == IF hitL THEN hitAngle(b.y, leftY) ELSE dy1
      hitR == /\ b.x + ballSize >= rightPaddleX
              /\ b.y + ballSize >= rightY /\ b.y <= rightY + paddleHeight
              /\ dx2 > 0
      dx3 == IF hitR THEN speedUp(-dx2) ELSE dx2
      dy3 == IF hitR THEN hitAngle(b.y, rightY) ELSE dy2
      point == IF b.x < 0 THEN "right"
               ELSE IF b.x > canvasWidth THEN "left" ELSE "none"
      c == [b EXCEPT !.dx = dx3, !.dy = dy3,
                     !.log = [wall |-> wall,
                              hits |-> (IF hitL THEN {"left"} ELSE {})
                                       \cup (IF hitR THEN {"right"} ELSE {}),
                              point |-> point, dx0 |-> b.dx, dy0 |-> b.dy,
                              dyWall |-> dy1]]
  IN  IF point = "right"
      THEN Canvas_resetBall([c EXCEPT !.rightScore = @ + 1], 1, up)
      ELSE IF point = "left"
           THEN Canvas_resetBall([c EXCEPT !.leftScore = @ + 1], -1, up)
           ELSE c


\* ------------------------------------------------------------ the machine
\* The state after the page has loaded in both browsers.  e is what the
\* environment may still do in the run: keys, faults, leaves, rooms, odd
\* (data of an unknown kind) and rematches (clicks on Play Again, where they
\* are counted) are numbers of events left, creators and joiners the clients that use the
\* create and the join button, queue and clicks the room in the channels
\* that a handler and a click handler need (Room and CanClick below),
\* gone the clients whose page is closed and errored the clients whose peer
\* has raised 'error'; webrtc says whether the browsers support WebRTC (new
\* SimplePeer throws where they do not).  Where watch is set, applied records
\* the clients that have applied a received ball state while in a match.
InitWith(e) ==
  /\ cl = [p \in Players |-> InitClient]
  /\ srv = InitServer
  /\ toCl = [p \in Players |-> <<>>]
  /\ rtc = [p \in Players |-> <<>>]
  /\ env = e
  /\ game = InitGame
  /\ hostBall = InitBall

Pick(out, ch) ==
  LET IsCh(o) == o.ch = ch
      sel == SelectSeq(out, IsCh)
  IN  [k \in 1..Len(sel) |-> sel[k].m]

\* The server takes the messages msgs of client p in order (Serve) and queues
\* its answers for the clients they are addressed to.
RECURSIVE Relay(_, _, _, _)
Relay(s, tc, p, msgs) ==
  IF msgs = <<>> THEN [srv |-> s, toCl |-> tc]
  ELSE LET a == Serve(s, p, Head(msgs))
       IN  Relay(a.srv,
                 [q \in Players |->
                    IF q \in a.to /\ q \notin env.gone
                    THEN Append(tc[q], Addressed(a, q)) ELSE tc[q]],
                 p, Tail(msgs))

\* Client p ends a handler in c: its variables are stored, what the handler
\* emitted on the socket is taken by the server, and what it sent on the
\* direct channel travels to the other client.  inSock and inRtc say whether
\* the handler consumed a socket or a direct-channel message.
Ran(p, c, inSock, inRtc) ==
  LET r == Relay(srv, [toCl EXCEPT ![p] = IF inSock THEN Tail(@) ELSE @],
                 p, Pick(c.out, "sock"))
  IN  /\ cl' = [cl EXCEPT ![p] = [c EXCEPT !.out = <<>>]]
      /\ srv' = r.srv
      /\ toCl' = r.toCl
      /\ rtc' = [q \in Players |->
                   IF q = p THEN (IF inRtc THEN Tail(rtc[p]) ELSE rtc[p])
                   ELSE rtc[q] \o Pick(c.out, "rtc")]
      /\ UNCHANGED <<game, hostBall>>

\* Room in the channels a handler of client p may write to.
Room(p) == \A q \in Players : Len(toCl[q]) < env.queue /\ Len(rtc[q]) < env.queue

Here(p) == p \notin env.gone
CanClick(p) ==
  /\ Here(p)
  /\ \A q \in Players : Len(toCl[q]) < env.clicks /\ Len(rtc[q]) < env.clicks
Clicked(p) == UNCHANGED env

ClickCreate(p) ==
  /\ CanClick(p) /\ cl[p].screen = "menu"
  /\ p \in env.creators /\ env.rooms > 0
  /\ Ran(p, createGame(cl[p]), FALSE, FALSE)
  /\ env' = [env EXCEPT !.rooms = @ - 1]

ClickShowJoin(p) ==
  /\ CanClick(p) /\ cl[p].screen = "menu" /\ p \in env.joiners
  /\ Ran(p, showJoinRoom(cl[p]), FALSE, FALSE)
  /\ Clicked(p)

\* The join button with code in the input field.
ClickJoinWith(p, code) ==
  /\ CanClick(p) /\ cl[p].screen = "roomJoin"
  /\ Ran(p, joinGame(cl[p], code), FALSE, FALSE)
  /\ Clicked(p)

ClickJoin(p) == \E code \in 0..MaxRooms : ClickJoinWith(p, code)

ClickBack(p) ==
  /\ CanClick(p) /\ cl[p].screen \in {"roomCreate", "roomJoin", "gameover"}
  /\ Ran(p, backToMenu(cl[p]), FALSE, FALSE)
  /\ Clicked(p)

ClickReady(p) ==
  /\ CanClick(p) /\ cl[p].screen = "waiting" /\ ~cl[p].readyDisabled
  /\ Ran(p, playerReadyUp(cl[p]), FALSE, FALSE)
  /\ Clicked(p)

ClickPlayAgain(p) ==
  /\ CanClick(p) /\ cl[p].screen = "gameover"
  /\ Ran(p, restartGame(cl[p]), FALSE, FALSE)
  /\ Clicked(p)

\* Play Again is clicked at client p, in a run that counts its rematches.
Rematch(p) ==
  /\ CanClick(p) /\ cl[p].screen = "gameover" /\ env.rematches > 0
  /\ Ran(p, restartGame(cl[p]), FALSE, FALSE)
  /\ env' = [env EXCEPT !.rematches = @ - 1]

Key(p) ==
  /\ Here(p) /\ cl[p].gameActive /\ env.keys > 0
  /\ \E key \in {"up", "down"} :
       \/ Ran(p, handleKeyDown(cl[p], key), FALSE, FALSE)
       \/ Ran(p, handleKeyUp(cl[p], key), FALSE, FALSE)
  /\ env' = [env EXCEPT !.keys = @ - 1]

\* The callbacks requested for a frame run one after the other, and one that
\* asks for a frame again gets the next frame.  ov[k] is the transverse
\* overlap met by the k-th callback still to run.
RECURSIVE RunFrame(_, _, _)
RunFrame(c, k, ov) ==
  IF k = 0 THEN c ELSE RunFrame(gameLoop(c, ov[k]), k - 1, ov)

\* An animation frame of client p.
Frame(p) ==
  /\ Here(p) /\ cl[p].loops > 0 /\ Room(p)
  /\ \E ov \in [1..cl[p].loops -> BOOLEAN] :
       Ran(p, RunFrame(cl[p], cl[p].loops, ov), FALSE, FALSE)
  /\ UNCHANGED env

\* The timers the listeners of gameStart set for the same instant run one
\* after the other.
RECURSIVE RunTimers(_)
RunTimers(c) ==
  IF c.timers = 0 THEN c ELSE RunTimers(Timeout([c EXCEPT !.timers = @ - 1]))

\* The 100 ms timers of the gameStart listeners fire at client p.
Timer(p) ==
  /\ Here(p) /\ cl[p].timers > 0
  /\ Ran(p, RunTimers(cl[p]), FALSE, FALSE)
  /\ UNCHANGED env

\* env.applied after client p has handled a ball-state message that its
\* handler accepts (accepts: the test of lines 280 and 405 apart from isHost).
Noted(p, accepts) ==
  IF env.watch /\ accepts /\ ~cl[p].isHost /\ cl[p].gameActive
  THEN env.applied \cup {p}
  ELSE env.applied

\* A socket event reaches client p.
Socket(p) ==
  /\ Here(p) /\ toCl[p] # <<>>
  /\ \E ok \in BOOLEAN, throws \in BOOLEAN, dir \in {-1, 1} :
       LET m == Head(toCl[p])
           fault == (~ok /\ m.type \in {"gameJoined", "playerJoined"})
                    \/ (throws /\ m.type = "webrtcSignal")
           idle == (ok /\ m.type \notin {"gameJoined", "playerJoined"})
                   \/ (throws /\ m.type # "webrtcSignal")
                   \/ (dir = 1 /\ m.type # "gameStart")
           unsupported == ~env.webrtc /\ m.type \in {"gameJoined", "playerJoined"}
       IN  /\ ~idle
           /\ m.type = "gameStart" => cl[p].loops + 2 <= MaxLoops /\ cl[p].timers = 0
           /\ unsupported => ~ok
           /\ fault /\ ~unsupported => env.faults > 0
           /\ Ran(p, SocketEvent(cl[p], m, [ok |-> ok, throws |-> throws, dir |-> dir]),
                  TRUE, FALSE)
           /\ env' = [env EXCEPT !.faults = IF fault /\ ~unsupported THEN @ - 1 ELSE @,
                                 !.applied = Noted(p, m.type = "ballUpdate"
                                                      /\ (~cl[p].useWebRTC \/ ~cl[p].peerConnected))]

\* The direct channel opens at client p: its peer and the other client's
\* have both accepted a signal.
PeerConnect(p) ==
  /\ Here(p) /\ Here(Other(p))
  /\ cl[p].peer = "new" /\ cl[p].signalled
  /\ cl[Other(p)].peer \in {"new", "open"} /\ cl[Other(p)].signalled
  /\ Ran(p, onPeerConnect(cl[p]), FALSE, FALSE)
  /\ UNCHANGED env

\* Data arrives on the direct channel of client p.
PeerData(p) ==
  /\ Here(p) /\ rtc[p] # <<>> /\ cl[p].peer = "open"
  /\ Ran(p, handleWebRTCMessage(cl[p], Head(rtc[p])), FALSE, TRUE)
  /\ env' = [env EXCEPT !.applied = Noted(p, Head(rtc[p]).type = "ballUpdate")]

\* Data sent towards a client whose peer is destroyed, or whose peer cannot
\* open any more because the sender's is destroyed, is lost.
PeerDataLost(p) ==
  /\ rtc[p] # <<>>
  /\ \/ cl[p].peer \in {"null", "dead"} \/ ~Here(p)
     \/ cl[p].peer = "new" /\ cl[Other(p)].peer \in {"null", "dead"}
  /\ rtc' = [rtc EXCEPT ![p] = <<>>]
  /\ UNCHANGED <<cl, srv, toCl, env, game, hostBall>>

\* The peer of client p fails: 'error', then the library destroys it and
\* raises 'close'.
PeerError(p) ==
  /\ Here(p) /\ cl[p].peer \in {"new", "open"} /\ env.faults > 0
  /\ Ran(p, onPeerClose(onPeerError([cl[p] EXCEPT !.peer = "dead"])), FALSE, FALSE)
  /\ env' = [env EXCEPT !.faults = @ - 1, !.errored = @ \cup {p}]

\* The peer of client p is closed from the other end (whose peer is destroyed
\* or whose page is gone) or by the network.
PeerClose(p) ==
  /\ Here(p) /\ cl[p].peer \in {"new", "open"}
  /\ LET caused == cl[p].peer = "open"
                   /\ (cl[Other(p)].peer \in {"null", "dead"} \/ ~Here(Other(p)))
     IN  /\ ~caused => env.faults > 0
         /\ env' = [env EXCEPT !.faults = IF caused THEN @ ELSE @ - 1]
  /\ Ran(p, onPeerClose([cl[p] EXCEPT !.peer = "dead"]), FALSE, FALSE)

\* Client p closes its page; the server tells the others in its rooms.
Leave(p) ==
  /\ Here(p) /\ env.leaves > 0
  /\ env' = [env EXCEPT !.gone = @ \cup {p}, !.leaves = @ - 1]
  /\ srv' = [srv EXCEPT !.players = [r \in 1..MaxRooms |->
                                       LET Stays(q) == q # p
                                       IN  SelectSeq(srv.players[r], Stays)],
                        !.ready = [r \in 1..MaxRooms |-> srv.ready[r] \ {p}]]
  /\ toCl' = [q \in Players |->
                IF q = p THEN <<>>
                ELSE IF \E r \in 1..srv.n : q \in Others(srv, r, p)
                     THEN Append(toCl[q], [type |-> "playerLeft"])
                     ELSE toCl[q]]
  /\ UNCHANGED <<cl, rtc, game, hostBall>>

Lobby(p) ==
  \/ ClickCreate(p) \/ ClickShowJoin(p) \/ ClickJoin(p) \/ ClickBack(p)
  \/ ClickReady(p)

Match(p) ==
  \/ ClickPlayAgain(p) \/ Frame(p) \/ Timer(p) \/ Socket(p)

\* The peer of client p sends data of a kind this script does not know.
PeerOdd(p) ==
  /\ Here(p) /\ cl[p].peer = "open" /\ env.odd > 0
  /\ Len(rtc[p]) < env.queue
  /\ rtc' = [rtc EXCEPT ![p] = Append(@, [type |-> "unknown"])]
  /\ env' = [env EXCEPT !.odd = @ - 1]
  /\ UNCHANGED <<cl, srv, toCl, game, hostBall>>

\* The data channel of client p stops taking data (its buffer is full, or it
\* is closing): from now on peer.send raises an exception.
SendFault(p) ==
  /\ Here(p) /\ cl[p].peer = "open" /\ ~cl[p].sendThrows /\ env.faults > 0
  /\ cl' = [cl EXCEPT ![p].sendThrows = TRUE]
  /\ env' = [env EXCEPT !.faults = @ - 1]
  /\ UNCHANGED <<srv, toCl, rtc, game, hostBall>>

Direct(p) ==
  \/ PeerConnect(p) \/ PeerData(p) \/ PeerDataLost(p)
  \/ PeerError(p) \/ PeerClose(p)

\* A match between the creator of one room and the client that joins it, with
\* direct-channel faults and a client that leaves; no keys are pressed.
Init ==
  InitWith([keys |-> 0, faults |-> MaxFaults, leaves |-> MaxLeaves, rooms |-> 1,
            creators |-> {1}, joiners |-> {2}, queue |-> MaxQueue, clicks |-> MaxQueue,
            gone |-> {}, errored |-> {},
            applied |-> {}, watch |-> FALSE, odd |-> 0, rematches |-> 0, webrtc |-> TRUE])

Next == \E p \in Players : Lobby(p) \/ Match(p) \/ Direct(p) \/ Leave(p)

Spec == Init /\ [][Next]_vars

\* The same match with keys pressed and nobody leaving.
InitKeys ==
  InitWith([keys |-> MaxKeys, faults |-> MaxFaults, leaves |-> 0, rooms |-> 1,
            creators |-> {1}, joiners |-> {2}, queue |-> MaxQueue, clicks |-> MaxQueue,
            gone |-> {}, errored |-> {},
            applied |-> {}, watch |-> FALSE, odd |-> 0, rematches |-> 0, webrtc |-> TRUE])

NextKeys ==
  \E p \in Players :
    \/ ClickCreate(p) \/ ClickShowJoin(p) \/ ClickJoin(p) \/ ClickReady(p)
    \/ Frame(p) \/ Timer(p) \/ Socket(p) \/ Direct(p) \/ Key(p)

KeySpec == InitKeys /\ [][NextKeys]_vars

\* The same match where a peer sends data of an unknown kind.
InitOdd ==
  InitWith([keys |-> 0, faults |-> 0, leaves |-> 0, rooms |-> 1,
            creators |-> {1}, joiners |-> {2}, queue |-> MaxQueue, clicks |-> MaxQueue,
            gone |-> {}, errored |-> {},
            applied |-> {}, watch |-> FALSE, odd |-> MaxOdd, rematches |-> 0, webrtc |-> TRUE])

NextOdd ==
  \E p \in Players :
    \/ ClickCreate(p) \/ ClickShowJoin(p) \/ ClickJoin(p) \/ ClickReady(p)
    \/ Frame(p) \/ Timer(p) \/ Socket(p)
    \/ PeerConnect(p) \/ PeerData(p) \/ PeerOdd(p)

OddSpec == InitOdd /\ [][NextOdd]_vars

\* The lobby with both clients free to create and to join rooms, up to the
\* start of a match, without faults.
InitLobby ==
  InitWith([keys |-> 0, faults |-> 0, leaves |-> 0, rooms |-> MaxRooms,
            creators |-> Players, joiners |-> Players, queue |-> LobbyQueue, clicks |-> LobbyQueue,
            gone |-> {}, errored |-> {},
            applied |-> {}, watch |-> FALSE, odd |-> 0, rematches |-> 0, webrtc |-> TRUE])

NextLobby == \E p \in Players : Lobby(p) \/ Socket(p) \/ PeerConnect(p)

LobbySpec == InitLobby /\ [][NextLobby]_vars

\* Whole sessions of two clients that are both free to create and to join
\* rooms, in browsers without WebRTC: every message goes through the server.
InitSession ==
  InitWith([keys |-> 0, faults |-> 0, leaves |-> MaxLeaves, rooms |-> MaxRooms,
            creators |-> Players, joiners |-> Players, queue |-> MaxQueue, clicks |-> MaxQueue,
            gone |-> {}, errored |-> {},
            applied |-> {}, watch |-> FALSE, odd |-> 0, rematches |-> 0, webrtc |-> FALSE])

NextSession == \E p \in Players : Lobby(p) \/ Match(p) \/ Leave(p)

SessionSpec == InitSession /\ [][NextSession]_vars

\* One match in which a data channel stops taking data.
InitJam ==
  InitWith([keys |-> 0, faults |-> MaxFaults, leaves |-> 0, rooms |-> 1,
            creators |-> {1}, joiners |-> {2}, queue |-> MaxQueue, clicks |-> MaxQueue,
            gone |-> {}, errored |-> {},
            applied |-> {}, watch |-> FALSE, odd |-> 0, rematches |-> 0, webrtc |-> TRUE])

NextJam ==
  \E p \in Players :
    \/ ClickCreate(p) \/ ClickShowJoin(p) \/ ClickJoin(p) \/ ClickReady(p)
    \/ Frame(p) \/ Timer(p) \/ Socket(p)
    \/ PeerConnect(p) \/ PeerData(p) \/ SendFault(p)

JamSpec == InitJam /\ [][NextJam]_vars

\* Matches of one room played one after the other over the direct channel,
\* with channels that hold RematchQueue messages, so that data sent on the
\* direct channel can wait while events of the server are handled.  The
\* 100 ms timers of gameStart run before the host's first frame.
InitRematch ==
  InitWith([keys |-> 0, faults |-> 0, leaves |-> 0, rooms |-> 1,
            creators |-> {1}, joiners |-> {2}, queue |-> RematchQueue,
            clicks |-> RematchQueue, gone |-> {}, errored |-> {},
            applied |-> {}, watch |-> FALSE, odd |-> 0, rematches |-> MaxRematch, webrtc |-> TRUE])

NextRematch ==
  \E p \in Players :
    \/ ClickCreate(p) \/ ClickShowJoin(p) \/ ClickJoin(p) \/ ClickReady(p)
    \/ Rematch(p) \/ (cl[p].timers = 0 /\ Frame(p)) \/ Timer(p) \/ Socket(p)
    \/ PeerConnect(p) \/ PeerData(p)

RematchSpec == InitRematch /\ [][NextRematch]_vars

\* Matches of two clients that are both free to create rooms, one of them
\* free to join, in browsers without WebRTC, with keys pressed and nobody
\* leaving.
InitRoles ==
  InitWith([keys |-> MaxKeys, faults |-> 0, leaves |-> 0, rooms |-> MaxRooms,
            creators |-> Players, joiners |-> {2}, queue |-> RolesQueue,
            clicks |-> RolesQueue, gone |-> {}, errored |-> {},
            applied |-> {}, watch |-> FALSE, odd |-> 0, rematches |-> 0, webrtc |-> FALSE])

NextRoles ==
  \E p \in Players :
    \/ ClickCreate(p) \/ ClickShowJoin(p) \/ ClickJoin(p) \/ ClickReady(p)
    \/ Frame(p) \/ Timer(p) \/ Socket(p) \/ Key(p)

RolesSpec == InitRoles /\ [][NextRoles]_vars

\* One match between the creator of a room and the client that joins it,
\* with direct-channel faults, in which the browsers and the network keep
\* working: a queued event is eventually handled, a requested frame and a set
\* timer eventually run, a channel both peers have signalled for eventually
\* opens, and a peer whose other end is destroyed eventually closes.  Clicks
\* and faults are not forced.
InitLive ==
  InitWith([keys |-> 0, faults |-> MaxFaults, leaves |-> 0, rooms |-> 1,
            creators |-> {1}, joiners |-> {2}, queue |-> MaxQueue, clicks |-> MaxQueue,
            gone |-> {}, errored |-> {},
            applied |-> {}, watch |-> TRUE, odd |-> 0, rematches |-> 0, webrtc |-> TRUE])

NextLive ==
  \E p \in Players :
    \/ ClickCreate(p) \/ ClickShowJoin(p) \/ ClickJoin(p) \/ ClickReady(p)
    \/ Frame(p) \/ Timer(p) \/ Socket(p) \/ Direct(p)

\* The conditions under which the steps that the network and the browser owe
\* can be taken and change the state: ENABLED <<A>>_vars for each of them (of
\* Frame, for a host in a match).
SocketPending(p) ==
  /\ Here(p) /\ toCl[p] # <<>>
  /\ Head(toCl[p]).type = "gameStart" =>
       cl[p].loops + 2 <= MaxLoops /\ cl[p].timers = 0

TimerPending(p) == Here(p) /\ cl[p].timers > 0

DataPending(p) == Here(p) /\ rtc[p] # <<>> /\ cl[p].peer = "open"

FramePending(p) ==
  Here(p) /\ cl[p].loops > 0 /\ Room(p) /\ cl[p].gameActive /\ cl[p].isHost

ConnectPending(p) ==
  /\ Here(p) /\ Here(Other(p))
  /\ cl[p].peer = "new" /\ cl[p].signalled
  /\ cl[Other(p)].peer \in {"new", "open"} /\ cl[Other(p)].signalled

ClosePending(p) ==
  /\ Here(p) /\ cl[p].peer = "open"
  /\ cl[Other(p)].peer \in {"null", "dead"} \/ ~Here(Other(p))

\* Weak fairness of the network's and the timers' steps, strong fairness of
\* the frames of a host in a match (the browser runs them whatever the state
\* of the queues).  For the steps that run a handler, WF_vars(A) and
\* SF_vars(A) are written with the enabling condition above in place of
\* ENABLED <<A>>_vars.
Fairness ==
  \A p \in Players :
    /\ WF_vars(PeerDataLost(p))
    /\ []<>~TimerPending(p) \/ []<><<Timer(p)>>_vars
    /\ []<>~SocketPending(p) \/ []<><<Socket(p)>>_vars
    /\ []<>~DataPending(p) \/ []<><<PeerData(p)>>_vars
    /\ <>[]~FramePending(p)
       \/ []<><<Frame(p) /\ cl[p].gameActive /\ cl[p].isHost>>_vars
    /\ []<>~ConnectPending(p) \/ []<><<PeerConnect(p)>>_vars
    /\ []<>~ClosePending(p)
       \/ []<><<PeerClose(p) /\ env'.faults = env.faults>>_vars

LiveSpec == InitLive /\ [][NextLive]_vars /\ Fairness

\* One match in which the 100 ms timers of gameStart run before the host's
\* first frame (no point is scored within 100 ms), with direct-channel
\* faults and channels that hold OrderQueue messages, so that a message on
\* one channel can overtake one on the other.
InitOrder ==
  InitWith([keys |-> 0, faults |-> MaxFaults, leaves |-> 0, rooms |-> 1,
            creators |-> {1}, joiners |-> {2}, queue |-> OrderQueue, clicks |-> MaxQueue,
            gone |-> {}, errored |-> {},
            applied |-> {}, watch |-> FALSE, odd |-> 0, rematches |-> 0, webrtc |-> TRUE])

NextOrder ==
  \E p \in Players :
    \/ ClickCreate(p) \/ ClickShowJoin(p) \/ ClickJoin(p) \/ ClickReady(p)
    \/ (cl[p].timers = 0 /\ Frame(p)) \/ Timer(p) \/ Socket(p) \/ Direct(p)

OrderSpec == InitOrder /\ [][NextOrder]_vars

\* ------------------------------------------- the single-player machine
\* Lines 243-244: a key goes down or up.  While a rally lasts, key events
\* are explored up to its KeyRally-th hit.
KeyEvent ==
  /\ env.keys > 0
  /\ game.ballInPlay => game.rally <= KeyRally
  /\ \E k \in {"left", "right", "space"} :
       game' = [game EXCEPT !.keys = IF k \in @ THEN @ \ {k} ELSE @ \cup {k}]
  /\ env' = [env EXCEPT !.keys = @ - 1]
  /\ UNCHANGED <<cl, srv, toCl, rtc, hostBall>>

\* An animation frame.
Animate ==
  /\ game.player + game.ai < MaxPoints /\ game.walls <= MaxWalls
  /\ \E r1 \in Random, r2 \in Random : game' = animate(game, r1, r2)
  /\ UNCHANGED <<cl, srv, toCl, rtc, env, hostBall>>

\* Lines 564-565 of update on the host: the ball moves and is tested, with
\* the paddles where the players have put them.  A player who has let the
\* ball pass the paddle's face keeps the paddle away from it.
HostTick ==
  /\ hostBall.leftScore + hostBall.rightScore < HostPoints
  /\ LET b == Canvas_moveBall(hostBall)
         passed == \/ hostBall.x <= leftPaddleX + paddleWidth
                   \/ hostBall.x + ballSize >= rightPaddleX
     IN  \E leftY \in PaddleYs(b.y), rightY \in PaddleYs(b.y), up \in BOOLEAN :
           /\ passed => leftY = Away(b.y) /\ rightY = Away(b.y)
           /\ hostBall' = Canvas_checkCollisions(b, leftY, rightY, up)
  /\ UNCHANGED <<cl, srv, toCl, rtc, env, game>>

InitSolo ==
  InitWith([keys |-> SoloKeys, faults |-> 0, leaves |-> 0, rooms |-> 0,
            creators |-> {}, joiners |-> {}, queue |-> MaxQueue, clicks |-> MaxQueue,
            gone |-> {}, errored |-> {},
            applied |-> {}, watch |-> FALSE, odd |-> 0, rematches |-> 0, webrtc |-> TRUE])

NextSolo == KeyEvent \/ Animate

SoloSpec == InitSolo /\ [][NextSolo]_vars

\* The host's ball alone.
NextCanvas == HostTick

CanvasSpec == InitSolo /\ [][NextCanvas]_vars

\* ------------------------------------------------------------- properties
\* The ball and the scores as one client holds them.
BallState(c) == <<c.ball, c.leftScore, c.rightScore>>

\* The step is a socket event of the given type at client p.
SocketOf(p, type) == toCl[p] # <<>> /\ Head(toCl[p]).type = type /\ Socket(p)

\* The step is a direct-channel message of the given type at client p.
DataOf(p, type) == rtc[p] # <<>> /\ Head(rtc[p]).type = type /\ PeerData(p)

\* The step applies a received ball-state message at client p as it is.
AppliesBall(p) ==
  \/ /\ SocketOf(p, "ballUpdate")
     /\ LET m == Head(toCl[p])
        IN  BallState(cl'[p]) = <<m.ball, m.leftScore, m.rightScore>>
  \/ /\ DataOf(p, "ballUpdate")
     /\ LET m == Head(rtc[p])
        IN  BallState(cl'[p]) = <<m.ball, m.leftScore, m.rightScore>>

\* The step is one of the resets at client p: resetGameState of startGame, or
\* resetGame of the restart and of the return to the menu.
ResetsBall(p) ==
  /\ \/ SocketOf(p, "gameStart") \/ SocketOf(p, "gameRestarted")
     \/ SocketOf(p, "playerLeft") \/ ClickBack(p)
  /\ cl'[p].leftScore = 0 /\ cl'[p].rightScore = 0
  /\ cl'[p].ball = cl[p].ball \/ cl'[p].ball.x = CanvasWidth \div 2

NoDirectSend(p) == Len(rtc'[Other(p)]) <= Len(rtc[Other(p)])

\* C3: an 'error' of the peer of a client in a match leaves the match on
\* (gameActive, the game screen), and a client whose peer has raised 'error'
\* sends nothing on the direct channel from then on: its paddle, ball and
\* game-over messages go to the server.
C3_ErrorFallsBack ==
  [][\A p \in Players :
       /\ PeerError(p) /\ cl[p].gameActive =>
            /\ cl'[p].gameActive /\ cl'[p].screen = "game"
            /\ p \in env'.errored
       /\ p \in env.errored =>
            /\ NoDirectSend(p)
            /\ ~cl'[p].useWebRTC
            /\ Frame(p) /\ cl[p].gameActive /\ Other(p) \notin env.gone
               /\ InRoom(srv, cl[p].room, Other(p))
               => \E k \in DOMAIN toCl'[Other(p)] :
                    toCl'[Other(p)][k].type = "opponentPaddleMove"]_vars

\* A paddle message waits at the server's side for the other client, sent in
\* a match by a client whose peer has raised 'error'.
C3_Witness ==
  \E p \in Players :
    /\ p \in env.errored /\ cl[p].gameActive /\ cl[p].screen = "game"
    /\ \E k \in DOMAIN toCl[Other(p)] :
         toCl[Other(p)][k].type = "opponentPaddleMove"

\* C7: a frame in which update runs and ends with a score at winningScore or
\* above ends the match in that frame (gameActive false, game-over screen),
\* and names player 1 the winner exactly when the left score is the one at
\* the threshold, player 2 exactly when the right score is.
C7_WinEndsMatch ==
  [][\A p \in Players :
       /\ Frame(p) /\ cl[p].gameActive
       /\ cl'[p].leftScore >= WinningScore \/ cl'[p].rightScore >= WinningScore
       => /\ ~cl'[p].gameActive /\ cl'[p].screen = "gameover"
          /\ cl'[p].winner = "PLAYER 1 WINS!" <=> cl'[p].leftScore >= WinningScore
          /\ cl'[p].winner = "PLAYER 2 WINS!" <=> cl'[p].rightScore >= WinningScore]_vars

\* Both outcomes, at a host and at a guest: a client on the game-over screen
\* with the score that won and the winner's name.
C7_Witness ==
  /\ \E p \in Players : /\ cl[p].isHost /\ cl[p].screen = "gameover"
                        /\ cl[p].leftScore >= WinningScore
                        /\ cl[p].winner = "PLAYER 1 WINS!"
  /\ \E p \in Players : /\ ~cl[p].isHost /\ cl[p].screen = "gameover"
                        /\ cl[p].leftScore >= WinningScore
                        /\ cl[p].winner = "PLAYER 1 WINS!"

\* C2: two clients that are in one room of the server and both in a match are
\* one host and one guest.
C2_OneHost ==
  \A p \in Players :
    /\ cl[p].gameActive /\ cl[Other(p)].gameActive
    /\ \E r \in 1..srv.n : InRoom(srv, r, p) /\ InRoom(srv, r, Other(p))
                           /\ cl[p].room = r /\ cl[Other(p)].room = r
    => cl[p].isHost # cl[Other(p)].isHost

\* C4: once useWebRTC is false at a client it stays false, and the client
\* sends nothing on the direct channel and makes no new peer.
C4_FallbackPermanent ==
  [][\A p \in Players :
       ~cl[p].useWebRTC =>
         /\ ~cl'[p].useWebRTC
         /\ NoDirectSend(p)
         /\ cl'[p].peer = "new" => cl[p].peer = "new"
         /\ cl'[p].leaked = cl[p].leaked]_vars

\* The paddle of the other client as client p holds it after the step, given
\* the side a message names.
CopyOf(p, side) == IF side = "left" THEN cl'[p].leftY ELSE cl'[p].rightY

\* C5: a paddle message that reaches a client in a match, by the server or by
\* the direct channel, overwrites the client's copy of the sender's paddle.
C5_PaddleApplied ==
  [][\A p \in Players :
       /\ cl[p].gameActive /\ SocketOf(p, "opponentPaddleMove") =>
            CopyOf(p, Head(toCl[p]).paddle) = Head(toCl[p]).position
       /\ cl[p].gameActive /\ DataOf(p, "paddleMove") =>
            CopyOf(p, Head(rtc[p]).paddle) = Head(rtc[p]).position]_vars

\* Nothing is left to happen at client p: no message on its way to it, no
\* frame and no timer.
Settled(p) ==
  /\ toCl[p] = <<>> /\ rtc[p] = <<>>
  /\ cl[p].loops = 0 /\ cl[p].timers = 0

\* C6: when the host has ended a match by a win and nothing is left to happen
\* at the guest of its room, the guest shows the game-over screen with a
\* winner.
C6_GuestEnds ==
  \A h \in Players :
    LET g == Other(h)
    IN  /\ cl[h].isHost /\ cl[h].screen = "gameover"
        /\ cl[h].winner \in {"PLAYER 1 WINS!", "PLAYER 2 WINS!"}
        /\ ~cl[g].isHost /\ cl[g].room = cl[h].room /\ g \notin env.gone
        /\ Settled(g) /\ Settled(h)
        => cl[g].screen = "gameover" /\ cl[g].winner # ""

\* C8: playerLeft at a client in a match ends the match with 'Opponent left
\* the game' as the outcome and destroys the peer; at a client that is not in
\* a match it shows the menu.
C8_OpponentLeft ==
  [][\A p \in Players :
       SocketOf(p, "playerLeft") =>
         IF cl[p].gameActive
         THEN /\ cl'[p].screen = "gameover" /\ ~cl'[p].gameActive
              /\ cl'[p].winner = "Opponent left the game"
              /\ cl'[p].peer = "null" /\ ~cl'[p].peerConnected
         ELSE cl'[p].screen = "menu"]_vars

\* C9: a step that takes a client out of a match leaves it without a peer:
\* peer null and peerConnected false.
C9_ExitReleasesPeer ==
  [][\A p \in Players :
       cl[p].gameActive /\ ~cl'[p].gameActive =>
         cl'[p].peer = "null" /\ ~cl'[p].peerConnected]_vars

\* No paddle and no ball message among the messages a handler emitted.
NoStateMessage(c) ==
  \A k \in DOMAIN c.out :
    c.out[k].m.type \notin {"paddleMove", "ballMove", "ballUpdate"}

\* C10: a client that is not in a match before a step nor after it emits no
\* paddle and no ball message in the step: not in a frame, not in answer to a
\* request for the ball, not in the timers of gameStart.
C10_SilentOutsideMatch ==
  [][\A p \in Players :
       ~cl[p].gameActive /\ ~cl'[p].gameActive =>
         /\ Frame(p) =>
              \A ov \in [1..cl[p].loops -> BOOLEAN] :
                NoStateMessage(RunFrame(cl[p], cl[p].loops, ov))
         /\ Timer(p) => NoStateMessage(RunTimers(cl[p]))
         /\ SocketOf(p, "sendBallUpdate") =>
              NoStateMessage(onSendBallUpdate(cl[p], Head(toCl[p]).room))
         /\ DataOf(p, "requestBallUpdate") =>
              NoStateMessage(handleWebRTCMessage(cl[p], Head(rtc[p])))]_vars

\* The session state of a client, by the screen it shows (lines 66-70); the
\* panel for the room code belongs to the menu.
SessionState(c) ==
  CASE c.screen \in {"menu", "roomJoin"} -> "Menu"
    [] c.screen = "roomCreate" -> "RoomCreated"
    [] c.screen = "waiting" -> "Waiting"
    [] c.screen = "game" -> "Active"
    [] OTHER -> "Ended"

ListedTransitions ==
  { <<"Menu", "RoomCreated">>, <<"Menu", "Waiting">>, <<"Waiting", "Active">>,
    <<"Active", "Ended">>, <<"Ended", "Menu">>, <<"Ended", "Waiting">> }

\* The transitions the list leaves out although the session it describes
\* needs them: the creator of a room goes on to Waiting when the other client
\* joins, the back button leaves the room, and playerLeft outside a match
\* shows the menu.
UnlistedTransitions ==
  { <<"RoomCreated", "Waiting">>, <<"RoomCreated", "Menu">>, <<"Waiting", "Menu">> }

Transition(p) == <<SessionState(cl[p]), SessionState(cl'[p])>>

\* C11: the session state of a client changes only by the six listed
\* transitions, or by one of the three moves without which the creator of a
\* room could not reach a match or leave its room.
C11_Transitions ==
  [][\A p \in Players :
       SessionState(cl'[p]) # SessionState(cl[p]) =>
         Transition(p) \in ListedTransitions \cup UnlistedTransitions]_vars

\* C12: a client enters a match (gameActive becomes true) only from the
\* waiting screen and with its own playerReady flag set.
C12_ActiveFromWaiting ==
  [][\A p \in Players :
       ~cl[p].gameActive /\ cl'[p].gameActive =>
         /\ cl[p].screen = "waiting" /\ cl[p].playerReady
         /\ cl'[p].screen = "game"]_vars

BothActive == cl[1].gameActive /\ cl[2].gameActive

\* C13: once the host and the guest of a room are both in the match, the
\* guest (client 2 of LiveSpec) eventually applies a ball-state message of the
\* host, unless the match is over before.
C13_GuestGetsBall == BothActive ~> (2 \in env.applied \/ ~BothActive)

\* C14: at every client the scores are never negative, and a score goes down
\* only in a reset (resetGameState of startGame, resetGame on a restart, on
\* the way back to the menu or when the opponent has left), which sets both
\* to 0.
C14_ScoresMonotone ==
  [][\A p \in Players :
       /\ cl'[p].leftScore >= 0 /\ cl'[p].rightScore >= 0
       /\ cl'[p].leftScore < cl[p].leftScore \/ cl'[p].rightScore < cl[p].rightScore =>
            /\ \/ SocketOf(p, "gameStart") \/ SocketOf(p, "gameRestarted")
               \/ SocketOf(p, "playerLeft") \/ ClickBack(p)
            /\ cl'[p].leftScore = 0 /\ cl'[p].rightScore = 0]_vars

\* C15: in the single-player game both paddles' lateral coordinates lie in
\* [-4, 4] after every updatePaddles.
C15_PaddlesInCourt ==
  /\ game.p1z >= -PaddleLimit /\ game.p1z <= PaddleLimit
  /\ game.p2z >= -PaddleLimit /\ game.p2z <= PaddleLimit

\* C16: while a client's match is active, after each movePaddles and after
\* each paddle position received from the peer, both paddles lie in
\* [0, canvas.height - paddleHeight].
C16_PaddlesOnCanvas ==
  \A p \in Players :
    cl[p].gameActive =>
      /\ cl[p].leftY >= 0 /\ cl[p].leftY <= PaddleMax
      /\ cl[p].rightY >= 0 /\ cl[p].rightY <= PaddleMax

\* The host's paddle is held at the lower edge with its key still down, and
\* the guest has applied that position.
C16_Witness ==
  /\ cl[1].gameActive /\ cl[2].gameActive
  /\ cl[1].leftDy > 0 /\ cl[1].leftY = PaddleMax
  /\ cl[2].leftY = PaddleMax /\ cl[2].leftY # PaddleStart

\* C17: at the end of every updateBall that leaves the ball in play, the
\* longitudinal speed's magnitude lies in [minSpeed, maxSpeed] and the
\* transverse speed's magnitude in [0, 0.6 * maxSpeed].
C17_SpeedsBounded ==
  game.ballInPlay /\ game.log.ran =>
    /\ Abs(game.sx) >= minSpeed /\ Abs(game.sx) <= maxSpeed
    /\ Abs(game.sz) <= Scaled(maxSpeed, 6, 10)

\* A paddle hit whose speed-up passed maxSpeed and was cut back to it.
C17_Witness ==
  /\ game.ballInPlay /\ game.log.ran /\ game.log.hits # {}
  /\ Scaled(Abs(game.log.sx0), 103, 100) > maxSpeed
  /\ Abs(game.sx) = maxSpeed

\* C19: on every tick with a successful paddle-hit test the longitudinal
\* speed ends with the sign opposite to the one it had before the tick and
\* with the magnitude min(1.03 * previous, maxSpeed), larger than before
\* whenever the previous magnitude was below maxSpeed.
C19_HitReflects ==
  game.log.ran /\ game.log.hits # {} =>
    /\ Sign(game.sx) = -Sign(game.log.sx0)
    /\ Abs(game.sx) = (IF Scaled(Abs(game.log.sx0), 103, 100) > maxSpeed
                        THEN maxSpeed ELSE Scaled(Abs(game.log.sx0), 103, 100))
    /\ Abs(game.log.sx0) < maxSpeed => Abs(game.sx) > Abs(game.log.sx0)

C18_SpeedWithinLimit ==
  Abs(hostBall.dx) >= ballSpeedPx /\ Abs(hostBall.dx) <= speedLimit

\* The ball waits for a serve: not in play, at rest, at x = -8 and at the
\* player paddle's z.
ServePending(g) ==
  /\ ~g.ballInPlay /\ g.sx = 0 /\ g.sz = 0
  /\ g.bx = -ServeX /\ g.bz = g.p1z

\* C21: a tick in which the ball's x exceeds 10 adds exactly one to the
\* player's score and leaves the AI's, a tick in which it is below -10 adds
\* exactly one to the AI's and leaves the player's, in both the ball ends the
\* tick waiting for a serve, and in every other tick both scores are kept.
C21_PointPerGoal ==
  [][ LET moved == game'.log.ran /\ game' # game /\ game'.keys = game.keys
      IN  IF moved /\ game'.log.x > GoalX
          THEN /\ game'.player = game.player + 1 /\ game'.ai = game.ai
               /\ ServePending(game')
          ELSE IF moved /\ game'.log.x < -GoalX
               THEN /\ game'.ai = game.ai + 1 /\ game'.player = game.player
                    /\ ServePending(game')
               ELSE game'.player = game.player /\ game'.ai = game.ai ]_vars

\* The ball has passed the player's end and the AI has its point.
C21_Witness ==
  /\ game.log.ran /\ game.log.x < -GoalX
  /\ game.ai = 1 /\ game.player = 0 /\ ServePending(game)

\* C22: a host tick in which the ball's x goes below 0 adds exactly one to the
\* right score, one in which it goes above canvas.width adds exactly one to
\* the left score, the other score is kept, the ball is put back waiting
\* for a serve with zero velocity, and a tick awards at most one point.
C22_PointAndRest ==
  [][ hostBall' # hostBall =>
        LET dl == hostBall'.leftScore - hostBall.leftScore
            dr == hostBall'.rightScore - hostBall.rightScore
            point == hostBall'.log.point
        IN  /\ point = "right" => dr = 1 /\ dl = 0
            /\ point = "left" => dl = 1 /\ dr = 0
            /\ point = "none" => dl = 0 /\ dr = 0
            /\ point # "none" => hostBall'.dx = 0 /\ hostBall'.dy = 0 ]_vars

\* The prediction of lines 568-570 for the ball as it is.
Predicted(g) == g.bz + Scaled(g.sz * Abs(PaddleX - g.bx), 1, g.sx)

\* C23: in every tick the AI's raw target is clamp(ball.z + ballSpeed.z *
\* (|paddle2.x - ball.x| / ballSpeed.x), -4, 4) if the ball's longitudinal
\* speed is positive and 0.3 * ball.z otherwise; the smoothed target kept
\* by the tick is 0.8 times the previous one plus 0.2 times that value.
C23_AiTarget ==
  [][ game' # game /\ game'.keys = game.keys =>
        LET z == IF game.ballInPlay THEN game.bz ELSE game'.p1z
            raw == IF game.sx > 0
                   THEN Bounded(z + Scaled(game.sz * Abs(PaddleX - game.bx), 1, game.sx),
                                -PaddleLimit, PaddleLimit)
                   ELSE Scaled(z, 3, 10)
        IN  game'.lastAiTarget = Scaled(game.lastAiTarget * 8 + raw * 2, 1, 10) ]_vars

\* The ball flies towards the AI on a line that leaves the court's width, and
\* the AI has a target already.
C23_Witness ==
  /\ game.ballInPlay /\ game.sx > 0 /\ game.lastAiTarget # 0
  /\ Abs(Predicted(game)) > PaddleLimit

\* C24: the ball starts not in play; while it is not in play its speeds are
\* 0 and, after each updatePaddles, its z is the player paddle's; it comes
\* into play only by a serve (space held while it is not in play), which
\* gives it a positive longitudinal speed; and it goes out of play only in a
\* tick that awards a point.
C24_BallLifecycle ==
  /\ ~game.ballInPlay
  /\ [][ (~game'.ballInPlay =>
            game'.sx = 0 /\ game'.sz = 0 /\ game'.bz = game'.p1z)
         /\ (~game.ballInPlay /\ game'.ballInPlay =>
            "space" \in game.keys /\ game'.sx > 0)
         /\ (game.ballInPlay /\ ~game'.ballInPlay =>
            game'.player + game'.ai = game.player + game.ai + 1) ]_vars

\* The ball was served, a point was played, and the ball waits again.
C24_Witness ==
  /\ ~game.ballInPlay /\ game.log.ran /\ game.player + game.ai = 1
  /\ game.sx = 0 /\ game.bz = game.p1z /\ game.p1z # 0

\* C25: a joinError event, and joinGame with an empty code, change nothing
\* but the error text: the room code, isHost, gameActive, the ready flags and
\* the screen are kept, no message is sent, and the client can still try to
\* join.
C25_FailedJoinKeeps ==
  [][ \A p \in Players :
        SocketOf(p, "joinError") \/ ClickJoinWith(p, NoRoom) =>
          /\ [cl'[p] EXCEPT !.joinError = cl[p].joinError] = cl[p]
          /\ cl'[p].joinError # ""
          /\ srv' = srv /\ rtc' = rtc
          /\ \A q \in Players \ {p} : toCl'[q] = toCl[q]
          /\ Len(toCl'[p]) <= Len(toCl[p]) ]_vars

\* A client still on the join panel after the server refused its code.
C25_Witness ==
  \E p \in Players :
    /\ cl[p].joinError = "Room not found" /\ cl[p].screen = "roomJoin"
    /\ cl[p].room = NoRoom /\ toCl[p] = <<>>

\* C26: a direct-channel message whose kind is none of paddleMove,
\* ballUpdate, requestBallUpdate and gameOver leaves the ball, the paddles,
\* the scores, gameActive, isHost and the transport flags as they were and
\* makes the client send nothing.
C26_UnknownIgnored ==
  [][ \A p \in Players :
        DataOf(p, "unknown") =>
          /\ cl' = cl /\ srv' = srv /\ toCl' = toCl
          /\ rtc' = [rtc EXCEPT ![p] = Tail(@)] ]_vars

\* A message of an unknown kind waits at a client whose match is running.
C26_Witness ==
  \E p \in Players :
    /\ rtc[p] # <<>> /\ Head(rtc[p]).type = "unknown"
    /\ cl[p].gameActive /\ cl[p].peer = "open"

\* The messages a step has added to a queue.
Added(old, new) ==
  IF Len(new) > Len(old) THEN {new[k] : k \in (Len(old) + 1)..Len(new)} ELSE {}

\* The ball-state messages a step of the other client has sent to client q,
\* through the server or on the direct channel.
BallSent(q) ==
  {m \in Added(toCl[q], toCl'[q]) \cup Added(rtc[q], rtc'[q]) : m.type = "ballUpdate"}

\* Whether a handler that ended in c has emitted a ball-state message.
EmitsBall(c) ==
  \E k \in DOMAIN c.out : c.out[k].m.type \in {"ballUpdate", "ballMove"}

\* C27: a client whose isHost is false never sends a ball-state message on
\* either channel, neither from a tick, nor from the timer of the game's
\* start, nor in answer to a request, and the host answers a request for the
\* ball state only while its gameActive is true.
C27_BallFromHost ==
  [][ \A p \in Players :
        /\ Timer(p) /\ EmitsBall(RunTimers(cl[p])) => cl[p].isHost
        /\ Frame(p) =>
             \A ov \in [1..cl[p].loops -> BOOLEAN] :
               EmitsBall(RunFrame(cl[p], cl[p].loops, ov)) => cl[p].isHost
        /\ BallSent(Other(p)) # {} =>
             /\ cl[p].isHost
             /\ SocketOf(p, "sendBallUpdate") \/ DataOf(p, "requestBallUpdate")
                  => cl[p].gameActive ]_vars

\* C28: within one tick the paddle test comes before the wall test, there
\* are ticks in which both fire, and the paddle's response acts on the
\* longitudinal speed and the wall's on the transverse speed, so that neither
\* overwrites the other's effect: after a tick of the networked host in which
\* both fired, the transverse speed is the one the wall test left.
C28_ResponsesApart ==
  hostBall.log.wall /\ hostBall.log.hits # {} /\ hostBall.log.point = "none" =>
    /\ hostBall.dy = hostBall.log.dyWall
    /\ hostBall.log.dyWall = -hostBall.log.dy0


\* The two participants of room r on the relay: the creator and the joiner.
Session(r) == r \in 1..srv.n /\ Len(srv.players[r]) = 2

Live(c) == c.peer \in {"new", "open"}

\* C29: in every session the joiner, once it waits in the room with the
\* direct channel enabled, holds a peer created as initiator, and when both
\* clients of the session hold a peer the creator's is the responder.
C29_Asymmetric ==
  \A r \in 1..MaxRooms :
    Session(r) =>
      LET h == srv.players[r][1]
          g == srv.players[r][2]
      IN  /\ cl[g].room = r /\ cl[g].screen = "waiting" /\ cl[g].useWebRTC
               => Live(cl[g]) /\ cl[g].initiator
          /\ cl[h].room = r /\ cl[g].room = r /\ Live(cl[h]) /\ Live(cl[g])
               => cl[g].initiator /\ ~cl[h].initiator


\* The paddle a client controls and the one it copies from its opponent.
OwnSide(c) == IF c.isHost THEN "left" ELSE "right"
OwnY(c) == IF c.isHost THEN c.leftY ELSE c.rightY
OwnDy(c) == IF c.isHost THEN c.leftDy ELSE c.rightDy
OppY(c) == IF c.isHost THEN c.rightY ELSE c.leftY
OppDy(c) == IF c.isHost THEN c.rightDy ELSE c.leftDy

\* Where the ticks of one frame can take the client's own paddle.
OwnMoves(c) == {Clamp(OwnY(c) + k * OwnDy(c)) : k \in 1..MaxLoops}

\* The paddle messages a handler that ended in c has emitted.
PaddleOut(c) == {c.out[k] : k \in {j \in DOMAIN c.out : c.out[j].m.type = "paddleMove"}}

\* C30: a key event changes nothing but the dy of the client's own paddle,
\* and nothing at all outside a match; in a match the copy of the opponent's
\* paddle has dy = 0 and moves only when a received paddle message is
\* applied; a received paddle message leaves the client's own paddle as it
\* is; and the paddle messages of a frame carry the own paddle's side and a
\* coordinate of the own paddle.
C30_PaddleOwnership ==
  [][ \A p \in Players :
        /\ Key(p) =>
             /\ OppDy(cl'[p]) = OppDy(cl[p])
             /\ cl'[p] = [cl[p] EXCEPT !.leftDy = cl'[p].leftDy,
                                       !.rightDy = cl'[p].rightDy]
        /\ ~cl[p].gameActive =>
             \A key \in {"up", "down"} :
               handleKeyDown(cl[p], key) = cl[p] /\ handleKeyUp(cl[p], key) = cl[p]
        /\ cl[p].gameActive => OppDy(cl[p]) = 0
        /\ cl[p].gameActive /\ cl'[p].gameActive /\ OppY(cl'[p]) # OppY(cl[p]) =>
             SocketOf(p, "opponentPaddleMove") \/ DataOf(p, "paddleMove")
        /\ cl[p].gameActive
             /\ (SocketOf(p, "opponentPaddleMove") \/ DataOf(p, "paddleMove"))
             => OwnY(cl'[p]) = OwnY(cl[p])
        /\ Frame(p) =>
             \A ov \in [1..cl[p].loops -> BOOLEAN] :
               \A m \in PaddleOut(RunFrame(cl[p], cl[p].loops, ov)) :
                 /\ m.m.position \in OwnMoves(cl[p])
                 /\ m.ch = "rtc" => m.m.paddle = OwnSide(cl[p]) ]_vars


\* C31: in every tick the AI's paddle moves by at most 0.15; it stays where
\* it is when the smoothed target of the tick is at most 0.1 away; and when
\* it moves, it moves towards that target and not beyond it.
C31_AiMoves ==
  [][ game' # game /\ game'.keys = game.keys =>
        LET targetDiff == game'.lastAiTarget - game.p2z
            moved == game'.p2z - game.p2z
        IN  /\ Abs(moved) <= aiSpeed
            /\ Abs(targetDiff) <= AiDeadZone => moved = 0
            /\ moved # 0 => Sign(moved) = Sign(targetDiff) /\ Abs(moved) <= Abs(targetDiff) ]_vars

\* The AI's paddle has left the centre and rests next to its target, less
\* than the threshold away from it.
C31_Witness ==
  /\ game.log.ran /\ game.p2z # 0
  /\ game.lastAiTarget # game.p2z
  /\ Abs(game.lastAiTarget - game.p2z) <= AiDeadZone


\* C32: at every client at most one gameLoop callback is pending at any
\* time, so that update runs at most once in an animation frame.
C32_OneLoop == \A p \in Players : cl[p].loops <= 1


\* C33: at every client at most one peer that is not destroyed exists at any
\* time: no peer is created while an earlier one of the client is alive.
C33_OnePeer == \A p \in Players : cl[p].leaked = 0


\* What the three senders of a match would emit at client c as it is: the
\* paddle message of movePaddles, the ball message of update and of the
\* timer, and the game-over message of endGame.
Sends(c) == {movePaddles(c).out, Timeout(c).out, endGame(c, "").out}

\* C34: at a client in a match each paddle, ball and game-over message goes
\* out on exactly one channel: on the direct channel if useWebRTC and
\* peerConnected are both true when it is sent, on the socket otherwise.
C34_OneChannel ==
  \A p \in Players :
    cl[p].gameActive =>
      \A out \in Sends(cl[p]) :
        /\ Len(out) = 1
        /\ out[1].ch = "rtc" <=> cl[p].useWebRTC /\ cl[p].peerConnected


\* C35: whenever the host's ball is beyond the top or the bottom wall at the
\* end of a tick, its transverse speed points back into the court.
C35_BackIntoCourt ==
  /\ hostBall.y <= 0 => hostBall.dy > 0
  /\ hostBall.y + ballSize >= canvasHeight => hostBall.dy < 0


\* Client p is the guest of a match that it and the host of its room are
\* both playing.
GuestOfMatch(p) ==
  /\ cl[p].gameActive /\ ~cl[p].isHost
  /\ cl[Other(p)].gameActive /\ cl[Other(p)].isHost
  /\ cl[p].room = cl[Other(p)].room

\* C36: the guest of a match never holds a score the host of the match has
\* not reached in it: no ball state sent in an earlier match of the room is
\* applied in a later one.
C36_NoStaleState ==
  \A p \in Players :
    GuestOfMatch(p) =>
      /\ cl[p].leftScore <= cl[Other(p)].leftScore
      /\ cl[p].rightScore <= cl[Other(p)].rightScore


\* C37: in every tick in play the ball's x changes by at most 0.35, and the
\* ball does not go from before a paddle's band ([8.8, 9.2] and
\* [-9.2, -8.8]) to beyond it: a tick in between tests it inside the band.
C37_BandTested ==
  [][ game.ballInPlay /\ game' # game /\ game'.keys = game.keys =>
        /\ Abs(game'.log.x - game.bx) <= maxSpeed
        /\ ~(game.bx < BandNear /\ game'.log.x > BandFar)
        /\ ~(game.bx > -BandNear /\ game'.log.x < -BandFar) ]_vars

\* The ball has entered the AI's band at the highest speed.
C37_Witness ==
  /\ game.log.ran /\ game.log.sx0 = maxSpeed
  /\ game.log.x >= BandNear /\ game.log.x <= BandFar
  /\ game.log.x - game.log.sx0 < BandNear


\* Line 486: the text of the opponent's status on the waiting screen.
OpponentStatus(c) == IF c.opponentReady THEN "READY" ELSE "NOT READY"

\* C38: opponentReady is false at every client in every reachable state, and
\* the opponent's status on the waiting screen reads NOT READY.
C38_OpponentNeverReady ==
  \A p \in Players :
    ~cl[p].opponentReady /\ OpponentStatus(cl[p]) = "NOT READY"

\* A client waits in a room a second time, after a match and a restart, while
\* the server holds its opponent as ready.
C38_Witness ==
  \E p \in Players :
    /\ cl[p].screen = "waiting" /\ cl[p].winner # ""
    /\ cl[p].room # NoRoom /\ Other(p) \in srv.ready[cl[p].room]

=============================================================================
